---- MODULE Spec2Model ----
(***************************************************************************)
(* Model of the Blender add-on in src/__init__.py: two operators that      *)
(* compute the screen rectangle of the current selection, take a           *)
(* screenshot of the editor, crop it and put it on the clipboard.          *)
(*                                                                         *)
(* Coordinates are integers (the code uses floats; ui_scale is taken from  *)
(* whole numbers so that every product stays an integer and int() is the   *)
(* identity).  The host (Blender), Pillow and pyperclipimg are modelled    *)
(* by their documented behaviour at the call sites.                        *)
(***************************************************************************)
EXTENDS Integers, Sequences, FiniteSets, TLC

VARIABLES
    context,        \* the host state the operators read (bpy context)
    pci,            \* the module global pci: "module" or None
    pillow_strict,  \* whether the installed Pillow rejects an inverted crop box
    pc,             \* position of the running operator
    op,             \* "none", "node" or "view3d"
    env,            \* what the environment does in this invocation
    region,         \* index of the WINDOW region found, 0 for None
    rect,           \* the rectangle computed (bmin, bmax)
    crop,           \* the box handed to im.crop
    reports,        \* self.report calls of this invocation
    result,         \* the set execute returns, as its one member
    log,            \* the steps of this invocation, in order
    copy_calls,     \* calls of pci.copy in this invocation
    tmp_writes,     \* writes of the temporary file in this invocation
    tmp_files,      \* the temporary files: name -> content
    clipboard,      \* what pci.copy put on the clipboard
    prev            \* environment and outcome of the previous invocation

vars == <<context, pci, pillow_strict, pc, op, env, region, rect, crop, reports,
          result, log, copy_calls, tmp_writes, tmp_files, clipboard, prev>>

host == <<context, pci, pillow_strict>>

None == "None"

----------------------------------------------------------------------------
(* Program constants *)

NODE_MARGIN == -50

NODE_EXTRA_HEIGHT == 0

\* 1e8, the start value of the min/max accumulation
SENTINEL == 100000000

padding == 50

\* what View2D.view_to_region(clip=True) returns for a point outside the region
V2D_IS_CLIPPED == 12000

----------------------------------------------------------------------------
(* Bounds of the model *)

MaxNodes == 2

MaxObjects == 2

UiScales == {1, 2}

NodeLocations == {<<10, 180>>, <<70, 160>>}

NodeSizes == {<<40, 30>>, <<140, 100>>}

ViewOrigins == {<<-20, -10>>}

AreaSizes == {<<300, 200>>}

\* results of location_3d_to_region_2d for the corners of a bounding box
Projections == {<<None, 0, 0>>, <<"pt", 20, 30>>, <<"pt", 400, 300>>}

ExceptionMessages == {"no display", "unsupported image"}

RegionLists == {<<"HEADER", "UI">>, <<"HEADER", "WINDOW", "UI">>}

----------------------------------------------------------------------------
(* Values *)

Vector(a, b) == [x |-> a, y |-> b]

min(a, b) == IF a <= b THEN a ELSE b

max(a, b) == IF a >= b THEN a ELSE b

Nodes == {[location_absolute |-> Vector(l[1], l[2]), width |-> s[1],
           height |-> s[2], select |-> b] :
             l \in NodeLocations, s \in NodeSizes, b \in BOOLEAN}

MeshObjects == {[type |-> "MESH", bound_box |-> c] :
                  c \in (SUBSET Projections) \ {{}}}

Objects == MeshObjects \cup {[type |-> "CAMERA", bound_box |-> {<<"pt", 20, 30>>}]}

SeqsUpTo(S, n) == UNION {[1..k -> S] : k \in 0..n}

NoRect == [bmin |-> Vector(0, 0), bmax |-> Vector(0, 0), set |-> FALSE]

NoCrop == [left |-> 0, upper |-> 0, right |-> 0, lower |-> 0, set |-> FALSE]

Envs == [copy : {"ok"} \cup ExceptionMessages, shot : {"ok"}]
          \cup {[copy |-> "ok", shot |-> "fail"]}

----------------------------------------------------------------------------
(* compute_selected_bounds *)

\* AccumulateNodes without the "if not node.select: continue"
RECURSIVE AccumulateNodes_all(_, _, _, _)
AccumulateNodes_all(nodes, i, acc, ui_scale) ==
    IF i > Len(nodes) THEN acc
    ELSE LET node == nodes[i]
             vmin == Vector(
                 node.location_absolute.x * ui_scale,
                 (node.location_absolute.y - node.height - NODE_EXTRA_HEIGHT)
                     * ui_scale)
             vmax == Vector(
                 (node.location_absolute.x + node.width) * ui_scale,
                 node.location_absolute.y * ui_scale)
             next == [bmin |-> Vector(min(acc.bmin.x, vmin.x),
                                      min(acc.bmin.y, vmin.y)),
                      bmax |-> Vector(max(acc.bmax.x, vmax.x),
                                      max(acc.bmax.y, vmax.y))]
         IN AccumulateNodes_all(nodes, i + 1, next, ui_scale)

\* the loop over node_tree.nodes, from node i on; acc is (bmin, bmax)
RECURSIVE AccumulateNodes(_, _, _, _)
AccumulateNodes(nodes, i, acc, ui_scale) ==
    IF i > Len(nodes) THEN acc
    ELSE LET node == nodes[i] IN
         IF ~node.select THEN AccumulateNodes(nodes, i + 1, acc, ui_scale)
         ELSE LET vmin == Vector(
                      node.location_absolute.x * ui_scale,
                      (node.location_absolute.y - node.height - NODE_EXTRA_HEIGHT)
                          * ui_scale)
                  vmax == Vector(
                      (node.location_absolute.x + node.width) * ui_scale,
                      node.location_absolute.y * ui_scale)
                  next == [bmin |-> Vector(min(acc.bmin.x, vmin.x),
                                           min(acc.bmin.y, vmin.y)),
                           bmax |-> Vector(max(acc.bmax.x, vmax.x),
                                           max(acc.bmax.y, vmax.y))]
              IN AccumulateNodes(nodes, i + 1, next, ui_scale)

\* compute_selected_bounds with a margin that grows with every invocation,
\* as a module-level accumulator would make it
compute_selected_bounds_stale(ctx, margin) ==
    LET node_tree == ctx.edit_tree
        grown == IF prev.op = "none" THEN margin ELSE margin + 10
    IN
    IF ~node_tree.present
    THEN [bmin |-> Vector(0, 0), bmax |-> Vector(0, 0), set |-> TRUE]
    ELSE LET acc == AccumulateNodes(node_tree.nodes, 1,
                        [bmin |-> Vector(SENTINEL, SENTINEL),
                         bmax |-> Vector(-SENTINEL, -SENTINEL)],
                        ctx.ui_scale)
         IN [bmin |-> Vector(acc.bmin.x - grown, acc.bmin.y - grown),
             bmax |-> Vector(acc.bmax.x + grown, acc.bmax.y + grown),
             set |-> TRUE]

compute_selected_bounds(ctx, margin) ==
    LET node_tree == ctx.edit_tree IN
    IF ~node_tree.present
    THEN [bmin |-> Vector(0, 0), bmax |-> Vector(0, 0), set |-> TRUE]
    ELSE LET acc == AccumulateNodes(node_tree.nodes, 1,
                        [bmin |-> Vector(SENTINEL, SENTINEL),
                         bmax |-> Vector(-SENTINEL, -SENTINEL)],
                        ctx.ui_scale)
         IN [bmin |-> Vector(acc.bmin.x - margin, acc.bmin.y - margin),
             bmax |-> Vector(acc.bmax.x + margin, acc.bmax.y + margin),
             set |-> TRUE]

----------------------------------------------------------------------------
(* Host and library calls *)

\* FindWindowRegion with "region = r" outside the if: the last region wins
RECURSIVE FindWindowRegion_last(_, _)
FindWindowRegion_last(regions, i) ==
    IF i > Len(regions) THEN Len(regions)
    ELSE IF regions[i] = "WINDOW" THEN i
    ELSE FindWindowRegion_last(regions, i + 1)

\* FindWindowRegion comparing with a type no region has: never found
FindWindowRegion_never(regions, i) == 0

\* the loop "for r in context.area.regions": index of the first WINDOW
\* region, 0 when there is none
RECURSIVE FindWindowRegion(_, _)
FindWindowRegion(regions, i) ==
    IF i > Len(regions) THEN 0
    ELSE IF regions[i] = "WINDOW" THEN i
    ELSE FindWindowRegion(regions, i + 1)

\* v2d.view_to_region(x, y, clip=True): the region pixel of a view point,
\* or the clipped marker for both coordinates when it lies outside
view_to_region(ctx, x, y) ==
    LET rx == x - ctx.view2d.x
        ry == y - ctx.view2d.y
    IN IF rx >= 0 /\ rx <= ctx.area.width /\ ry >= 0 /\ ry <= ctx.area.height
       THEN <<rx, ry>>
       ELSE <<V2D_IS_CLIPPED, V2D_IS_CLIPPED>>

\* whether Image.crop raises for this box (Pillow rejects right < left and
\* lower < upper from 9.5 on, earlier versions return an image)
CropRaises(box) ==
    pillow_strict /\ (box.right < box.left \/ box.lower < box.upper)

TmpName(o) == IF o = "node" THEN "numpy_magic_full.png" ELSE "viewport_screenshot.png"

Report(level, msg, detail) == [level |-> level, msg |-> msg, detail |-> detail]

Outcome == [rect |-> rect, crop |-> crop, result |-> result, reports |-> reports,
            pc |-> pc, copy_calls |-> copy_calls]

----------------------------------------------------------------------------
(* The bounding box of capture_viewport_screenshot *)

\* the loop over the corners of one bound_box; corners whose projection
\* is None are skipped
RECURSIVE AccumulateCorners(_, _)
AccumulateCorners(corners, acc) ==
    IF corners = {} THEN acc
    ELSE LET screen_coord == CHOOSE c \in corners : TRUE
             rest == corners \ {screen_coord}
         IN IF screen_coord[1] = None THEN AccumulateCorners(rest, acc)
            ELSE AccumulateCorners(rest,
                   [bmin |-> Vector(min(acc.bmin.x, screen_coord[2]),
                                    min(acc.bmin.y, screen_coord[3])),
                    bmax |-> Vector(max(acc.bmax.x, screen_coord[2]),
                                    max(acc.bmax.y, screen_coord[3]))])

\* the loop over selected_objects
RECURSIVE AccumulateObjects(_, _, _)
AccumulateObjects(objs, i, acc) ==
    IF i > Len(objs) THEN acc
    ELSE AccumulateObjects(objs, i + 1, AccumulateCorners(objs[i].bound_box, acc))

\* selected_objects = [obj for obj in context.selected_objects if obj.type == 'MESH']
SelectedMeshes(ctx) == SelectSeq(ctx.selected_objects, LAMBDA o : o.type = "MESH")

\* bmin/bmax after the padding; im is the screenshot
PaddedBounds(objs) ==
    LET acc == AccumulateObjects(objs, 1,
                   [bmin |-> Vector(SENTINEL, SENTINEL),
                    bmax |-> Vector(-SENTINEL, -SENTINEL)])
    IN [bmin |-> Vector(acc.bmin.x - padding, acc.bmin.y - padding),
        bmax |-> Vector(acc.bmax.x + padding, acc.bmax.y + padding)]

\* "Clamp to image bounds"
ClampToImage(b, im) ==
    [bmin |-> Vector(max(0, b.bmin.x), max(0, b.bmin.y)),
     bmax |-> Vector(min(im.width, b.bmax.x), min(im.height, b.bmax.y)),
     set |-> TRUE]

\* the box handed to im.crop by capture_viewport_screenshot
ViewportCropBox(b, im) ==
    LET y1 == im.height - b.bmax.y
        y2 == im.height - b.bmin.y
    IN [left |-> b.bmin.x, upper |-> y1, right |-> b.bmax.x, lower |-> y2,
        set |-> TRUE]

\* the box handed to im.crop by capture_node_area
NodeCropBox(ctx, b, im) ==
    LET p1 == view_to_region(ctx, b.bmin.x, b.bmin.y)
        p2 == view_to_region(ctx, b.bmax.x, b.bmax.y)
        y1t == im.height - p2[2]
        y2t == im.height - p1[2]
    IN [left |-> p1[1], upper |-> y1t, right |-> p2[1], lower |-> y2t,
        set |-> TRUE]

----------------------------------------------------------------------------
(* poll: the value of the "and" chain, as Python computes it *)

\* NODE_OT_poll without "pci is not None"
NODE_OT_poll_no_lib(ctx, lib) ==
    IF ctx.space_type = None THEN None
    ELSE IF ctx.space_type # "NODE_EDITOR" THEN "False"
    ELSE "True"

NODE_OT_poll(ctx, lib) ==
    IF ctx.space_type = None THEN None
    ELSE IF ctx.space_type # "NODE_EDITOR" THEN "False"
    ELSE IF lib # None THEN "True" ELSE "False"

VIEW3D_OT_poll(ctx, lib) ==
    IF ctx.space_type = None THEN None
    ELSE IF ctx.space_type # "VIEW_3D" THEN "False"
    ELSE IF lib # None THEN "True" ELSE "False"

Truthy(v) == v = "True"

----------------------------------------------------------------------------
(* Initial states *)

Areas == [width : {a[1] : a \in AreaSizes}, height : {a[2] : a \in AreaSizes},
          regions : RegionLists]

NoTree == [present |-> FALSE, nodes |-> <<>>]

View2Ds == {Vector(o[1], o[2]) : o \in ViewOrigins}

NodeContexts ==
    [space_type : {"NODE_EDITOR"}, area : Areas, ui_scale : UiScales,
     edit_tree : {NoTree} \cup
                 [present : {TRUE}, nodes : SeqsUpTo(Nodes, MaxNodes)],
     view2d : View2Ds, selected_objects : {<<>>}]

ViewContexts ==
    [space_type : {"VIEW_3D"}, area : Areas, ui_scale : {1},
     edit_tree : {NoTree}, view2d : View2Ds,
     selected_objects : SeqsUpTo(Objects, MaxObjects)]

OtherContexts ==
    [space_type : {None, "IMAGE_EDITOR"}, area : Areas, ui_scale : {1},
     edit_tree : {NoTree}, view2d : View2Ds, selected_objects : {<<>>}]

NoEnv == [copy |-> "ok", shot |-> "ok"]

NoPrev == [op |-> "none", env |-> NoEnv, outcome |-> <<>>]

Init ==
    /\ context \in ViewContexts \cup NodeContexts \cup OtherContexts
    /\ pci \in {"module", None}
    /\ pillow_strict \in BOOLEAN
    /\ pc = "idle"
    /\ op = "none"
    /\ env = NoEnv
    /\ region = 0
    /\ rect = NoRect
    /\ crop = NoCrop
    /\ reports = <<>>
    /\ result = "none"
    /\ log = <<>>
    /\ copy_calls = 0
    /\ tmp_writes = 0
    /\ tmp_files = [f \in {TmpName("node"), TmpName("view3d")} |-> "absent"]
    /\ clipboard = NoCrop
    /\ prev = NoPrev

----------------------------------------------------------------------------
(* The operators *)

Returned == pc \in {"idle", "done", "raised"}

\* the host calls execute; the previous invocation is history now
Begin(o, e) ==
    /\ Returned
    /\ op' = o
    /\ env' = e
    /\ prev' = IF op = "none" THEN prev
               ELSE [op |-> op, env |-> env, outcome |-> <<Outcome>>]
    /\ pc' = "find_region"
    /\ region' = 0
    /\ rect' = NoRect
    /\ crop' = NoCrop
    /\ reports' = <<>>
    /\ result' = "none"
    /\ log' = <<>>
    /\ copy_calls' = 0
    /\ tmp_writes' = 0
    /\ UNCHANGED <<host, tmp_files, clipboard>>

NodeInvoke ==
    \E e \in Envs :
        /\ Truthy(NODE_OT_poll(context, pci))
        /\ Begin("node", e)

ViewInvoke ==
    \E e \in Envs :
        /\ Truthy(VIEW3D_OT_poll(context, pci))
        /\ Begin("view3d", e)

\* Abort without the self.report call
Abort_silent(error) ==
    /\ reports' = reports
    /\ result' = "CANCELLED"
    /\ pc' = "done"

\* execute's "if error:" branch
Abort(error) ==
    /\ reports' = Append(reports, Report("ERROR", error, ""))
    /\ result' = "CANCELLED"
    /\ pc' = "done"

RegionMissing(o) ==
    IF o = "node" THEN "Node editor window region not found"
    ELSE "Viewport window region not found"

\* both capture functions: find the window region
FindRegion ==
    /\ pc = "find_region"
    /\ region' = FindWindowRegion(context.area.regions, 1)
    /\ log' = Append(log, "region")
    /\ IF region' = 0
       THEN Abort(RegionMissing(op))
       ELSE /\ pc' = IF op = "node" THEN "bounds" ELSE "selection"
            /\ UNCHANGED <<reports, result>>
    /\ UNCHANGED <<host, op, env, rect, crop, copy_calls, tmp_writes, tmp_files,
                   clipboard, prev>>

\* capture_node_area: bmin, bmax = compute_selected_bounds(context, NODE_MARGIN)
NodeBounds ==
    /\ pc = "bounds"
    /\ op = "node"
    /\ rect' = compute_selected_bounds(context, NODE_MARGIN)
    /\ log' = Append(log, "bounds")
    /\ pc' = "screenshot"
    /\ UNCHANGED <<host, op, env, region, crop, reports, result, copy_calls,
                   tmp_writes, tmp_files, clipboard, prev>>

\* capture_viewport_screenshot: the selected MESH objects
ViewSelection ==
    /\ pc = "selection"
    /\ op = "view3d"
    /\ log' = Append(log, "selection")
    /\ IF SelectedMeshes(context) = <<>>
       THEN Abort("No mesh objects selected")
       ELSE /\ pc' = "screenshot"
            /\ UNCHANGED <<reports, result>>
    /\ UNCHANGED <<host, op, env, region, rect, crop, copy_calls, tmp_writes,
                   tmp_files, clipboard, prev>>

\* Screenshot with the screenshot operator called a second time
Screenshot_twice ==
    /\ pc = "screenshot"
    /\ log' = log \o <<"screenshot", "screenshot">>
    /\ IF env.shot = "fail"
       THEN /\ pc' = "raised"
            /\ UNCHANGED <<tmp_files, tmp_writes>>
       ELSE /\ tmp_files' = [tmp_files EXCEPT ![TmpName(op)] =
                                [width |-> context.area.width,
                                 height |-> context.area.height]]
            /\ tmp_writes' = tmp_writes + 2
            /\ pc' = IF op = "node" THEN "crop" ELSE "view_bounds"
    /\ UNCHANGED <<host, op, env, region, rect, crop, reports, result,
                   copy_calls, clipboard, prev>>

\* bpy.ops.screen.screenshot_area(filepath=tmp); a failing host operator
\* raises and execute does not return
Screenshot ==
    /\ pc = "screenshot"
    /\ log' = Append(log, "screenshot")
    /\ IF env.shot = "fail"
       THEN /\ pc' = "raised"
            /\ UNCHANGED <<tmp_files, tmp_writes>>
       ELSE /\ tmp_files' = [tmp_files EXCEPT ![TmpName(op)] =
                                [width |-> context.area.width,
                                 height |-> context.area.height]]
            /\ tmp_writes' = tmp_writes + 1
            /\ pc' = IF op = "node" THEN "crop" ELSE "view_bounds"
    /\ UNCHANGED <<host, op, env, region, rect, crop, reports, result,
                   copy_calls, clipboard, prev>>

\* capture_node_area: Image.open, view_to_region, flip, crop
NodeCrop ==
    /\ pc = "crop"
    /\ op = "node"
    /\ LET im == tmp_files[TmpName("node")]
           box == NodeCropBox(context, rect, im)
       IN /\ crop' = box
          /\ pc' = IF CropRaises(box) THEN "raised" ELSE "copy"
    /\ log' = Append(log, "crop")
    /\ UNCHANGED <<host, op, env, region, rect, reports, result, copy_calls,
                   tmp_writes, tmp_files, clipboard, prev>>

\* capture_viewport_screenshot: Image.open, bounding box, padding, clamp,
\* flip, crop
ViewBoundsAndCrop ==
    /\ pc = "view_bounds"
    /\ op = "view3d"
    /\ LET im == tmp_files[TmpName("view3d")]
           b == ClampToImage(PaddedBounds(SelectedMeshes(context)), im)
           box == ViewportCropBox(b, im)
       IN /\ rect' = b
          /\ crop' = box
          /\ pc' = IF CropRaises(box) THEN "raised" ELSE "copy"
    /\ log' = log \o <<"bounds", "crop">>
    /\ UNCHANGED <<host, op, env, region, reports, result, copy_calls,
                   tmp_writes, tmp_files, clipboard, prev>>

CopySuccess(o) ==
    IF o = "node" THEN "Image copied to clipboard"
    ELSE "Viewport image copied to clipboard"

\* Copy with "except Exception: pass": the failure is swallowed
Copy_swallow ==
    /\ pc = "copy"
    /\ copy_calls' = copy_calls + 1
    /\ log' = Append(log, "copy")
    /\ clipboard' = IF env.copy = "ok" THEN crop ELSE clipboard
    /\ reports' = Append(reports, Report("INFO", CopySuccess(op), ""))
    /\ result' = "FINISHED"
    /\ pc' = "done"
    /\ UNCHANGED <<host, op, env, region, rect, crop, tmp_writes, tmp_files, prev>>

\* execute: the try/except around pci.copy
Copy ==
    /\ pc = "copy"
    /\ copy_calls' = copy_calls + 1
    /\ log' = Append(log, "copy")
    /\ IF env.copy = "ok"
       THEN /\ clipboard' = crop
            /\ reports' = Append(reports, Report("INFO", CopySuccess(op), ""))
            /\ result' = "FINISHED"
       ELSE /\ reports' = Append(reports,
                   Report("ERROR", "Failed to copy to clipboard: ", env.copy))
            /\ result' = "CANCELLED"
            /\ UNCHANGED clipboard
    /\ pc' = "done"
    /\ UNCHANGED <<host, op, env, region, rect, crop, tmp_writes, tmp_files, prev>>

Next ==
    \/ NodeInvoke
    \/ ViewInvoke
    \/ FindRegion
    \/ NodeBounds
    \/ ViewSelection
    \/ Screenshot
    \/ NodeCrop
    \/ ViewBoundsAndCrop
    \/ Copy

Spec == Init /\ [][Next]_vars

----------------------------------------------------------------------------
(* Properties *)

SetMin(S) == CHOOSE m \in S : \A v \in S : m <= v

SetMax(S) == CHOOSE m \in S : \A v \in S : m >= v

Selected == {i \in DOMAIN context.edit_tree.nodes : context.edit_tree.nodes[i].select}

SelNode(i) == context.edit_tree.nodes[i]

HasWindowRegion == \E i \in DOMAIN context.area.regions : context.area.regions[i] = "WINDOW"

HasSelectedMesh ==
    \E i \in DOMAIN context.selected_objects : context.selected_objects[i].type = "MESH"

ErrorReports == {i \in DOMAIN reports : reports[i].level = "ERROR"}

InfoReports == {i \in DOMAIN reports : reports[i].level = "INFO"}

CopyFailed == copy_calls = 1 /\ env.copy # "ok"

Positions(step) == {i \in DOMAIN log : log[i] = step}

Image == [width |-> context.area.width, height |-> context.area.height]

\* C1: whenever at least one node is selected, the rectangle returned by
\* compute_selected_bounds with NODE_MARGIN has bmin.x <= bmax.x and
\* bmin.y <= bmax.y.
C1_MinLeMax ==
    (op = "node" /\ rect.set /\ Selected # {}) =>
        (rect.bmin.x <= rect.bmax.x /\ rect.bmin.y <= rect.bmax.y)

\* C2: every crop box handed to im.crop, by either capture function, has
\* all four coordinates within the image: 0 <= left, right <= width and
\* 0 <= upper, lower <= height.
C2_CropClamped ==
    crop.set =>
        /\ 0 <= crop.left /\ crop.left <= Image.width
        /\ 0 <= crop.right /\ crop.right <= Image.width
        /\ 0 <= crop.upper /\ crop.upper <= Image.height
        /\ 0 <= crop.lower /\ crop.lower <= Image.height

\* C3: each poll returns a false value (None or False) whenever the
\* clipboard library is absent or the editor type does not match, and
\* succeeds exactly when the space is of the command's type and the library
\* is there; a command only ever runs where its poll succeeds.
C3_PollGate ==
    /\ NODE_OT_poll(context, pci) \in {None, "False", "True"}
    /\ VIEW3D_OT_poll(context, pci) \in {None, "False", "True"}
    /\ Truthy(NODE_OT_poll(context, pci)) <=>
           (context.space_type = "NODE_EDITOR" /\ pci # None)
    /\ Truthy(VIEW3D_OT_poll(context, pci)) <=>
           (context.space_type = "VIEW_3D" /\ pci # None)
    /\ op = "node" => (context.space_type = "NODE_EDITOR" /\ pci # None)
    /\ op = "view3d" => (context.space_type = "VIEW_3D" /\ pci # None)

C3_Witness ==
    /\ pci = None
    /\ context.space_type = "NODE_EDITOR"
    /\ NODE_OT_poll(context, pci) = "False"
    /\ op = "none"

\* C4: executed in an area without a WINDOW region, an operator reports one
\* ERROR and returns CANCELLED; no screenshot is taken, the temporary file
\* is not written and pci.copy is not called.
C4_RegionMissing ==
    (op # "none" /\ ~HasWindowRegion) =>
        /\ pc \in {"find_region", "done"}
        /\ ~("screenshot" \in {log[i] : i \in DOMAIN log})
        /\ tmp_writes = 0
        /\ copy_calls = 0
        /\ tmp_files = [f \in DOMAIN tmp_files |-> "absent"]
        /\ pc = "done" =>
              /\ reports = <<Report("ERROR", RegionMissing(op), "")>>
              /\ result = "CANCELLED"

C4_Witness ==
    /\ op = "view3d"
    /\ ~HasWindowRegion
    /\ pc = "done"
    /\ result = "CANCELLED"

\* C5: when pci.copy raises, the exception does not leave execute, exactly
\* one ERROR report carrying the exception's message is emitted, no INFO
\* report is emitted and the operator returns CANCELLED.
C5_CopyFailure ==
    (copy_calls > 0 /\ env.copy # "ok") =>
        /\ pc = "done"
        /\ result = "CANCELLED"
        /\ Cardinality(ErrorReports) = 1
        /\ InfoReports = {}
        /\ \A i \in ErrorReports :
              /\ reports[i].msg = "Failed to copy to clipboard: "
              /\ reports[i].detail = env.copy

C5_Witness ==
    /\ pc = "done"
    /\ copy_calls = 1
    /\ env.copy = "no display"
    /\ result = "CANCELLED"

\* C6, as stated: an execution that returns CANCELLED with an ERROR report
\* does so because the WINDOW region is missing or because the clipboard
\* copy failed, and for no other reason.
C6_TwoFailureKinds ==
    (pc = "done" /\ result = "CANCELLED" /\ ErrorReports # {}) =>
        (~HasWindowRegion \/ CopyFailed)

\* C6, amended: an execution that returns CANCELLED with an ERROR report
\* does so because the WINDOW region is missing, because the viewport
\* operator found no selected MESH object, or because the clipboard copy
\* failed.
C6_ThreeFailureKinds ==
    (pc = "done" /\ result = "CANCELLED" /\ ErrorReports # {}) =>
        \/ ~HasWindowRegion
        \/ (op = "view3d" /\ ~HasSelectedMesh /\ copy_calls = 0)
        \/ CopyFailed

C6_Witness ==
    /\ op = "view3d"
    /\ pc = "done"
    /\ result = "CANCELLED"
    /\ HasWindowRegion
    /\ ~HasSelectedMesh
    /\ reports = <<Report("ERROR", "No mesh objects selected", "")>>

\* C7, as stated: in an invocation that reaches the clipboard step each of
\* rectangle, screenshot, crop and copy happens once, in this order, with
\* the rectangle computed before the screenshot, and the temporary file is
\* written once.
C7_RectangleBeforeScreenshot ==
    copy_calls > 0 =>
        /\ tmp_writes = 1
        /\ \A st \in {"bounds", "screenshot", "crop", "copy"} :
              Cardinality(Positions(st)) = 1
        /\ \A i \in Positions("bounds"), j \in Positions("screenshot"),
              k \in Positions("crop"), l \in Positions("copy") :
                 i < j /\ j < k /\ k < l

\* C7, amended: in an invocation that reaches the clipboard step every
\* step happens once and the temporary file is written once; the node
\* operator computes the rectangle, then takes the screenshot, crops and
\* copies; the viewport operator takes the screenshot first, then computes
\* the rectangle, crops and copies.
C7_StepOrder ==
    copy_calls > 0 =>
        /\ tmp_writes = 1
        /\ copy_calls = 1
        /\ op = "node" =>
              log = <<"region", "bounds", "screenshot", "crop", "copy">>
        /\ op = "view3d" =>
              log = <<"region", "selection", "screenshot", "bounds", "crop", "copy">>

C7_Witness ==
    /\ op = "view3d"
    /\ pc = "done"
    /\ copy_calls = 1
    /\ result = "FINISHED"

\* C8: no step of an operator changes the host's scene data, and an
\* invocation's rectangle and outcome depend on the host state and on what
\* the environment does in it only: an invocation that follows one with the
\* same environment ends with the same rectangle, crop, reports and result.
SameAsBefore ==
    (pc \in {"done", "raised"} /\ prev.op = op /\ prev.env = env) =>
        prev.outcome = <<Outcome>>

C9_BoundsAndFlip ==
    (op = "node" /\ rect.set /\ Selected # {}) =>
        LET s == context.ui_scale
            m == NODE_MARGIN
            y1 == view_to_region(context, rect.bmin.x, rect.bmin.y)[2]
            y2 == view_to_region(context, rect.bmax.x, rect.bmax.y)[2]
        IN /\ rect.bmin.x =
                 SetMin({SelNode(i).location_absolute.x * s : i \in Selected}) - m
           /\ rect.bmin.y =
                 SetMin({(SelNode(i).location_absolute.y - SelNode(i).height
                            - NODE_EXTRA_HEIGHT) * s : i \in Selected}) - m
           /\ rect.bmax.x =
                 SetMax({(SelNode(i).location_absolute.x + SelNode(i).width) * s :
                            i \in Selected}) + m
           /\ rect.bmax.y =
                 SetMax({SelNode(i).location_absolute.y * s : i \in Selected}) + m
           /\ crop.set =>
                 /\ crop.upper = Image.height - y2
                 /\ crop.lower = Image.height - y1
                 /\ crop.lower - crop.upper = y2 - y1

C9_Witness ==
    /\ op = "node"
    /\ crop.set
    /\ Cardinality(Selected) = 1
    /\ Len(context.edit_tree.nodes) = 2
    /\ crop.lower > crop.upper
    /\ crop.lower < V2D_IS_CLIPPED

\* C10: an execution that returns a result emits exactly one report; the
\* result is FINISHED exactly when pci.copy was called once and did not
\* raise; INFO goes with FINISHED and ERROR with CANCELLED; and when a
\* capture function returns an error, pci.copy is never called (with no
\* selected MESH object the viewport operator takes no screenshot either).
C10_ReportsAndResult ==
    /\ pc = "done" =>
          /\ Len(reports) = 1
          /\ result \in {"FINISHED", "CANCELLED"}
          /\ result = "FINISHED" <=> (copy_calls = 1 /\ env.copy = "ok")
          /\ InfoReports # {} => result = "FINISHED"
          /\ ErrorReports # {} => result = "CANCELLED"
    /\ (op # "none" /\ ~HasWindowRegion) => copy_calls = 0
    /\ (op = "view3d" /\ ~HasSelectedMesh) => (copy_calls = 0 /\ tmp_writes = 0)
    /\ pc # "done" => (reports = <<>> /\ result = "none")

C10_Witness ==
    /\ op = "view3d"
    /\ pc = "done"
    /\ HasWindowRegion
    /\ ~HasSelectedMesh
    /\ Len(context.selected_objects) > 0
    /\ result = "CANCELLED"
    /\ copy_calls = 0

====
